---- MODULE Spec2Model ----
(***************************************************************************)
(* A model of pytidb's Table (src/pytidb/table.py) and of the column       *)
(* classification helpers it uses (src/pytidb/utils.py).                   *)
(*                                                                         *)
(* One behaviour follows one physical table of the database.  Several      *)
(* schema classes may be bound to that table (successive versions of a     *)
(* model class, an ORM class and a TableModel class, ...); each schema     *)
(* class carries its own in-memory table definition (__table__), whose     *)
(* index collection Table.__init__ mutates, while the database holds what  *)
(* CREATE TABLE actually produced.                                         *)
(***************************************************************************)
EXTENDS Integers, Sequences, FiniteSets, TLC

\* ------------------------------------------------------------------ bounds
MaxId == 2          \* primary keys of the records are 1..MaxId
MaxBatch == 2       \* longest list handed to bulk_insert

\* ------------------------------------------------------------ Python values
NoneVal == 0        \* Python's None, for a field of a record
\* Optional[...] values other than record fields: <<>> is None, <<x>> is x.
None_ == <<>>
Some(x) == <<x>>

RECURSIVE SeqToSet(_)
SeqToSet(s) == IF s = <<>> THEN {} ELSE {Head(s)} \cup SeqToSet(Tail(s))

\* dict.get(key, default) on an attribute bag (a record whose domain is the
\* set of attributes that were set).
AttrGet(attrs, key, default) == IF key \in DOMAIN attrs THEN attrs[key] ELSE default

\* str.lower() on the strings the model uses.
lower(s) ==
  CASE s = "VECTOR" -> "vector"
    [] s = "FULLTEXT" -> "fulltext"
    [] s = "COSINE" -> "cosine"
    [] s = "L2" -> "l2"
    [] OTHER -> s

\* ------------------------------------------------------------- column types
\* A column's type is an INSTANCE of a type class; the classes themselves are
\* distinct objects.  Python's == / != between an instance and a class falls
\* back to object identity, which is what record (in)equality gives here.
TypeClass(c) == [kind |-> "class", cls |-> c]
TypeInstance(c) == [kind |-> "instance", cls |-> c]
VectorType == TypeClass("VectorType")
String == TypeClass("String")
AutoString == TypeClass("AutoString")
isinstance(obj, class) == obj.kind = "instance" /\ obj.cls = class.cls

Col(n, c) == [name |-> n, type |-> TypeInstance(c)]

\* ------------------------------------------------------------------ schemas
\* pydantic field: its name and the attributes set on it (_attributes_set).
Fld(n, a) == [name |-> n, attrs |-> a]
PlainAttrs == [nullable |-> TRUE]

DocColumns == <<Col("id", "Integer"), Col("s", "AutoString"), Col("v", "VectorType")>>
MultiColumns == <<Col("id", "Integer"), Col("s", "AutoString"), Col("t", "String"),
                  Col("v", "VectorType"), Col("w", "VectorType")>>
BareColumns == <<Col("id", "Integer")>>

\* --------------------------------------------------------- index objects
\* pytidb.orm.indexes.format_distance_expression: the canonical text of the
\* distance expression of (column, metric), e.g. (VEC_COSINE_DISTANCE(v)).
format_distance_expression(column_name, distance_metric) ==
  <<"VEC", distance_metric, "DISTANCE", column_name>>

\* pytidb.orm.indexes.VectorIndex / FullTextIndex, and a plain sqlalchemy Index.
VectorIndex(name, column_name, distance_metric, algorithm) ==
  [name |-> name, mysql_prefix |-> "VECTOR", columns |-> <<>>,
   expressions |-> <<format_distance_expression(column_name, distance_metric)>>,
   algorithm |-> algorithm, fts_parser |-> "None"]

FullTextIndex(name, column_name, fts_parser) ==
  [name |-> name, mysql_prefix |-> "FULLTEXT", columns |-> <<column_name>>,
   expressions |-> <<>>, algorithm |-> "None", fts_parser |-> fts_parser]

PlainIndex(name, column_name) ==
  [name |-> name, mysql_prefix |-> "", columns |-> <<column_name>>,
   expressions |-> <<>>, algorithm |-> "None", fts_parser |-> "None"]

\* utils.get_index_type
get_index_type(index) == lower(index.mysql_prefix)

\* ------------------------------------------------------------ the schemas
\* metaclass: type(schema).  pydantic_fields: __pydantic_fields__, present only
\* on pydantic-based classes.  table_args: the indexes the class itself declares.
\* Doc, DocSkip, DocArgs, DocPlain and DocOrm are classes over one table, "docs":
\* DocSkip opts out of the indexes and names a source field its records do not
\* have, DocArgs declares indexes of its own and asks for the L2 metric, DocPlain
\* is a plain SQLModel class and DocOrm an ORM declarative class.  NotASchema is
\* a class of another metaclass.
Schemas ==
  [Doc |->
     [metaclass |-> "TableModelMeta", tablename |-> "docs", columns |-> DocColumns,
      table_args |-> <<>>,
      pydantic_fields |-> <<
        Fld("id", PlainAttrs),
        Fld("s", [field_type |-> "text"]),
        Fld("v", [field_type |-> "vector", embed_fn |-> "E1", source_field |-> "s"])>>],
   DocSkip |->
     [metaclass |-> "TableModelMeta", tablename |-> "docs", columns |-> DocColumns,
      table_args |-> <<>>,
      pydantic_fields |-> <<
        Fld("id", PlainAttrs),
        Fld("s", [field_type |-> "text", skip_index |-> TRUE]),
        Fld("v", [field_type |-> "vector", skip_index |-> TRUE,
                  embed_fn |-> "E1", source_field |-> "title"])>>],
   DocArgs |->
     [metaclass |-> "TableModelMeta", tablename |-> "docs", columns |-> DocColumns,
      table_args |-> <<PlainIndex(<<"idx_id">>, "id"),
                       VectorIndex(<<"my_vec">>, "v", "COSINE", "HNSW"),
                       FullTextIndex(<<"my_fts">>, "s", "STANDARD")>>,
      pydantic_fields |-> <<
        Fld("id", PlainAttrs),
        Fld("s", [field_type |-> "text", fts_parser |-> "MULTILINGUAL"]),
        Fld("v", [field_type |-> "vector", distance_metric |-> "L2",
                  embed_fn |-> "E1"])>>],
   DocPlain |->
     [metaclass |-> "SQLModelMetaclass", tablename |-> "docs", columns |-> DocColumns,
      table_args |-> <<>>,
      pydantic_fields |-> <<Fld("id", PlainAttrs), Fld("s", PlainAttrs),
                            Fld("v", PlainAttrs)>>],
   DocOrm |->
     [metaclass |-> "DeclarativeMeta", tablename |-> "docs", columns |-> DocColumns,
      table_args |-> <<>>],
   Multi |->
     [metaclass |-> "TableModelMeta", tablename |-> "multi", columns |-> MultiColumns,
      table_args |-> <<>>,
      pydantic_fields |-> <<
        Fld("id", PlainAttrs),
        Fld("s", [field_type |-> "text"]),
        Fld("t", [field_type |-> "text", skip_index |-> TRUE]),
        Fld("v", [field_type |-> "vector", embed_fn |-> "E1", source_field |-> "s"]),
        Fld("w", [field_type |-> "vector", distance_metric |-> "L2",
                  embed_fn |-> "E2", source_field |-> "s"])>>],
   Bare |->
     [metaclass |-> "TableModelMeta", tablename |-> "bare", columns |-> BareColumns,
      table_args |-> <<>>,
      pydantic_fields |-> <<Fld("id", PlainAttrs)>>],
   NotASchema |->
     [metaclass |-> "ModelMetaclass", tablename |-> "docs", columns |-> DocColumns,
      table_args |-> <<>>,
      pydantic_fields |-> <<Fld("id", PlainAttrs)>>]]

SchemaIds == DOMAIN Schemas
TableNames == {"docs", "multi", "bare"}

\* ------------------------------------------------------ utils.py classifiers
filter_vector_columns(columns) ==
  LET IsVec(column) == isinstance(column.type, VectorType)
  IN SelectSeq(columns, IsVec)

filter_text_columns(columns) ==
  LET IsText(column) == isinstance(column.type, AutoString) \/ isinstance(column.type, String)
  IN SelectSeq(columns, IsText)

\* `name in columns` / `columns[name]` of a sqlalchemy column collection.
HasColumn(columns, column_name) == \E i \in 1..Len(columns) : columns[i].name = column_name
ColumnOf(columns, column_name) ==
  columns[CHOOSE i \in 1..Len(columns) : columns[i].name = column_name]

\* Both checkers return the column, or raise ValueError.
Raise(e) == [error |-> e, value |-> None_]
Return(x) == [error |-> "", value |-> Some(x)]

check_vector_column(columns, column_name) ==
  IF ~HasColumn(columns, column_name) THEN Raise("ValueError")
  ELSE LET vector_column == ColumnOf(columns, column_name)
       IN IF vector_column.type # VectorType THEN Raise("ValueError")
          ELSE Return(vector_column)

check_text_column(columns, column_name) ==
  IF ~HasColumn(columns, column_name) THEN Raise("ValueError")
  ELSE LET text_column == ColumnOf(columns, column_name)
       IN IF ~isinstance(text_column.type, String) /\ ~isinstance(text_column.type, AutoString)
          THEN Raise("ValueError")
          ELSE Return(text_column)

\* ------------------------------------------------- Table: construction steps
\* type(schema) is TableModelMeta or SQLModelMetaclass or DeclarativeMeta
RecognizedSchemaType(schema) ==
  \/ schema.metaclass = "TableModelMeta"
  \/ schema.metaclass = "SQLModelMetaclass"
  \/ schema.metaclass = "DeclarativeMeta"

\* hasattr(schema, "__pydantic_fields__")
HasPydanticFields(schema) == "pydantic_fields" \in DOMAIN schema

\* The field_type == "vector" / "text" partition of __pydantic_fields__.
FieldsOfType(schema, field_type) ==
  LET Is(f) == AttrGet(f.attrs, "field_type", "None") = field_type
  IN SelectSeq(schema.pydantic_fields, Is)

\* Table._setup_auto_embedding: the configs, in field order.
AutoEmbeddingConfig(field) ==
  [vector_field_name |-> field.name,
   embed_fn |-> AttrGet(field.attrs, "embed_fn", "None"),
   source_field_name |-> AttrGet(field.attrs, "source_field", "None")]

setup_auto_embedding(vector_fields) ==
  LET Declared(f) == /\ AttrGet(f.attrs, "embed_fn", "None") # "None"
                     /\ AttrGet(f.attrs, "source_field", "None") # "None"
      kept == SelectSeq(vector_fields, Declared)
  IN [i \in 1..Len(kept) |-> AutoEmbeddingConfig(kept[i])]

\* The text of the expressions of the table's vector indexes.
indexed_expressions(indexes) ==
  {indexes[i].expressions[1] : i \in {j \in 1..Len(indexes) : get_index_type(indexes[j]) = "vector"}}

\* The columns of the table's fulltext indexes.
indexed_columns(indexes) ==
  {indexes[i].columns[1] : i \in {j \in 1..Len(indexes) : get_index_type(indexes[j]) = "fulltext"}}

\* A plausible slip: the vector index is appended without looking at the
\* indexes the table already has.
vector_index_for_field_unchecked(indexes, field) ==
  IF AttrGet(field.attrs, "skip_index", FALSE) THEN indexes
  ELSE LET distance_metric == AttrGet(field.attrs, "distance_metric", "COSINE")
       IN Append(indexes, VectorIndex(<<"vec_idx", field.name, lower(distance_metric)>>,
                                      field.name, distance_metric,
                                      AttrGet(field.attrs, "algorithm", "HNSW")))

\* One iteration of Table._auto_create_vector_index.
vector_index_for_field(indexes, field) ==
  LET column_name == field.name
      skip_index == AttrGet(field.attrs, "skip_index", FALSE)
      distance_metric == AttrGet(field.attrs, "distance_metric", "COSINE")
      algorithm == AttrGet(field.attrs, "algorithm", "HNSW")
      distance_expression == format_distance_expression(column_name, distance_metric)
  IN IF skip_index THEN indexes
     ELSE IF distance_expression \in indexed_expressions(indexes) THEN indexes
     ELSE Append(indexes, VectorIndex(<<"vec_idx", column_name, lower(distance_metric)>>,
                                      column_name, distance_metric, algorithm))

RECURSIVE auto_create_vector_index(_, _)
auto_create_vector_index(indexes, vector_fields) ==
  IF vector_fields = <<>> THEN indexes
  ELSE auto_create_vector_index(vector_index_for_field(indexes, Head(vector_fields)),
                                Tail(vector_fields))

\* One iteration of Table._auto_create_fulltext_index.
fulltext_index_for_field(indexes, field) ==
  LET skip_index == AttrGet(field.attrs, "skip_index", FALSE)
      column_name == field.name
      fts_parser == AttrGet(field.attrs, "fts_parser", "MULTILINGUAL")
  IN IF skip_index THEN indexes
     ELSE IF column_name \in indexed_columns(indexes) THEN indexes
     ELSE Append(indexes, FullTextIndex(<<"fts_idx", column_name>>, column_name, fts_parser))

RECURSIVE auto_create_fulltext_index(_, _)
auto_create_fulltext_index(indexes, text_fields) ==
  IF text_fields = <<>> THEN indexes
  ELSE auto_create_fulltext_index(fulltext_index_for_field(indexes, Head(text_fields)),
                                  Tail(text_fields))

\* ------------------------------------------------------------ the database
\* Base.metadata.create_all(engine, tables=[sa_table], checkfirst=exist_ok):
\* with checkfirst the existing table is left alone; without it CREATE TABLE
\* is issued, which the database rejects when the table exists.  A created
\* table gets the indexes its definition carries at that moment.  db_ok FALSE
\* is a database that cannot be reached.
create_all(database, indexes, checkfirst, db_ok) ==
  IF ~db_ok THEN
    [error |-> "DatabaseError", db |-> database, trace |-> <<<<"connect">>>>]
  ELSE IF checkfirst /\ database.exists THEN
    [error |-> "", db |-> database, trace |-> <<<<"has_table">>>>]
  ELSE IF database.exists THEN
    [error |-> "DatabaseError", db |-> database, trace |-> <<<<"create_table">>>>]
  ELSE
    [error |-> "",
     db |-> [database EXCEPT !.exists = TRUE, !.indexes = indexes],
     trace |-> (IF checkfirst THEN <<<<"has_table">>>> ELSE <<>>)
               \o <<<<"create_table">>>>
               \o [i \in 1..Len(indexes) |-> <<"create_index", indexes[i].name>>]]

\* Lines 97-113: the default search column, given or derived.
default_vector_column(columns, vector_column) ==
  IF vector_column # None_ THEN check_vector_column(columns, vector_column[1])
  ELSE LET vector_columns == filter_vector_columns(columns)
       IN IF Len(vector_columns) = 1 THEN Return(vector_columns[1])
          ELSE [error |-> "", value |-> None_]

default_text_column(columns, text_column) ==
  IF text_column # None_ THEN check_text_column(columns, text_column[1])
  ELSE LET text_columns == filter_text_columns(columns)
       IN IF Len(text_columns) = 1 THEN Return(text_columns[1])
          ELSE [error |-> "", value |-> None_]

\* Table.__init__ after the schema type check (lines 72-113).  indexes is the
\* index collection of the schema's table definition; the result carries it as
\* the construction leaves it, also when the construction fails later.
Table_init_body(schema, vector_column, text_column, exist_ok, db_ok, indexes, database) ==
  LET columns == schema.columns
      pyd == HasPydanticFields(schema)
      vector_fields == IF pyd THEN FieldsOfType(schema, "vector") ELSE <<>>
      text_fields == IF pyd THEN FieldsOfType(schema, "text") ELSE <<>>
      configs == IF pyd THEN Some(setup_auto_embedding(vector_fields)) ELSE None_
      synced == IF pyd
                THEN auto_create_fulltext_index(
                       auto_create_vector_index(indexes, vector_fields), text_fields)
                ELSE indexes
      created == create_all(database, synced, exist_ok, db_ok)
      vc == default_vector_column(columns, vector_column)
      tc == default_text_column(columns, text_column)
      failed(e) == [outcome |-> e, indexes |-> synced, db |-> created.db,
                    table |-> None_, trace |-> created.trace]
  IN IF created.error # "" THEN failed(created.error)
     ELSE IF vc.error # "" THEN failed(vc.error)
     ELSE IF tc.error # "" THEN failed(tc.error)
     ELSE [outcome |-> "ok", indexes |-> synced, db |-> created.db,
           table |-> Some([vector_column |-> vc.value, text_column |-> tc.value,
                           auto_embedding_configs |-> configs]),
           trace |-> created.trace]

\* A plausible slip: the schema type is validated only after the table has
\* been set up.
Table_init_late_type_check(schema, vector_column, text_column, exist_ok, db_ok, indexes, database) ==
  LET r == Table_init_body(schema, vector_column, text_column, exist_ok, db_ok,
                           indexes, database)
  IN IF RecognizedSchemaType(schema) THEN r
     ELSE [r EXCEPT !.outcome = "TypeError", !.table = None_]

\* Table.__init__ (lines 49-113).
Table_init(schema, vector_column, text_column, exist_ok, db_ok, indexes, database) ==
  IF ~RecognizedSchemaType(schema)
  THEN [outcome |-> "TypeError", indexes |-> indexes, db |-> database,
        table |-> None_, trace |-> <<>>]
  ELSE Table_init_body(schema, vector_column, text_column, exist_ok, db_ok,
                       indexes, database)

\* -------------------------------------------------- external collaborators
\* The embedding functions of the schemas (spec section 6): get_source_embedding
\* maps a source value to a vector, get_source_embeddings maps a list of sources
\* to the list of their vectors, in order.
get_source_embedding(embed_fn, source) ==
  IF embed_fn = "E1" THEN 10 + source ELSE 20 + source

get_source_embeddings(embed_fn, sources) ==
  [i \in 1..Len(sources) |-> get_source_embedding(embed_fn, sources[i])]

\* pytidb.filters.build_filter_clauses: no filters give no clause; a filter
\* {column: value} gives the clause column == value, and is rejected when the
\* table has no such column.
build_filter_clauses(filters, columns) ==
  IF filters = None_ THEN [error |-> "", clauses |-> <<>>]
  ELSE IF ~HasColumn(columns, filters[1].column) THEN [error |-> "ValueError", clauses |-> <<>>]
  ELSE [error |-> "", clauses |-> <<filters[1]>>]

\* stmt.filter(*clauses): the rows every clause accepts.
Matching(rows, clauses) ==
  {r \in rows : \A i \in 1..Len(clauses) : r[clauses[i].column] = clauses[i].value}

\* A plausible slip: the session is not released when its block raises.
with_session_leaky(body) ==
  IF body.error # "" THEN <<<<"session_open">>>> \o body.trace
  ELSE <<<<"session_open">>>> \o body.trace \o <<<<"session_close">>>>

\* `with self._client.session() as db_session:` / `with Session(engine)`: the
\* session is opened, the block runs, and the session is closed however the
\* block ends.
with_session(body) ==
  <<<<"session_open">>>> \o body.trace \o <<<<"session_close">>>>

\* ------------------------------------------------------------ Table.insert
\* A plausible slip: the embedding is computed whether or not the record
\* already carries a vector.
insert_config_step_overwrite(acc, config, k, embed_fail) ==
  LET field_name == config.vector_field_name
      call == <<"embed", config.embed_fn, field_name, acc.data[config.source_field_name]>>
  IN IF acc.error # "" THEN acc
     ELSE IF config.source_field_name \notin DOMAIN acc.data THEN acc
     ELSE IF embed_fail = k
          THEN [acc EXCEPT !.error = "EmbeddingError", !.trace = Append(@, call)]
     ELSE [acc EXCEPT
             !.data[field_name] =
               get_source_embedding(config.embed_fn, acc.data[config.source_field_name]),
             !.trace = Append(@, call)]

\* One iteration of the auto-embedding loop of insert (lines 234-244).  acc is
\* the record as mutated so far with the calls made so far; the k-th config's
\* embedding call raises when embed_fail = k.
insert_config_step(acc, config, k, embed_fail) ==
  LET field_name == config.vector_field_name
      call == <<"embed", config.embed_fn, field_name, acc.data[config.source_field_name]>>
  IN IF acc.error # "" THEN acc
     ELSE IF acc.data[field_name] # NoneVal THEN acc
     ELSE IF config.source_field_name \notin DOMAIN acc.data THEN acc
     ELSE IF embed_fail = k
          THEN [acc EXCEPT !.error = "EmbeddingError", !.trace = Append(@, call)]
     ELSE [acc EXCEPT
             !.data[field_name] =
               get_source_embedding(config.embed_fn, acc.data[config.source_field_name]),
             !.trace = Append(@, call)]

RECURSIVE insert_auto_embedding(_, _, _, _)
insert_auto_embedding(acc, configs, k, embed_fail) ==
  IF k > Len(configs) THEN acc
  ELSE insert_auto_embedding(insert_config_step(acc, configs[k], k, embed_fail),
                             configs, k + 1, embed_fail)

\* db_session.add(data); flush(); refresh(data) -- the database rejects a
\* primary key it already holds.
insert_persist(rows, data, db_ok) ==
  IF ~db_ok \/ (\E r \in rows : r.id = data.id)
  THEN [error |-> "DatabaseError", rows |-> rows,
        trace |-> <<<<"add", data.id>>, <<"flush">>>>]
  ELSE [error |-> "", rows |-> rows \cup {data},
        trace |-> <<<<"add", data.id>>, <<"flush">>, <<"refresh", data.id>>>>]

\* Table.insert (lines 232-250).
Table_insert(table, data, embed_fail, db_ok, rows) ==
  IF table.auto_embedding_configs = None_
  THEN [outcome |-> "AttributeError", data |-> data, rows |-> rows,
        trace |-> <<>>, ret |-> None_]
  ELSE
    LET e == insert_auto_embedding([data |-> data, trace |-> <<>>, error |-> ""],
                                   table.auto_embedding_configs[1], 1, embed_fail)
        p == insert_persist(rows, e.data, db_ok)
    IN IF e.error # ""
       THEN [outcome |-> e.error, data |-> e.data, rows |-> rows,
             trace |-> e.trace, ret |-> None_]
       ELSE [outcome |-> IF p.error # "" THEN p.error ELSE "ok",
             data |-> e.data, rows |-> p.rows,
             trace |-> e.trace \o with_session(p),
             ret |-> IF p.error # "" THEN None_ ELSE Some(e.data)]

\* -------------------------------------------------------- Table.bulk_insert
\* The positions of the items that need the config's embedding, in list order.
items_need_embedding(data, config) ==
  SelectSeq([i \in 1..Len(data) |-> i],
            LAMBDA i : /\ data[i][config.vector_field_name] = NoneVal
                       /\ config.source_field_name \in DOMAIN data[i])

\* A plausible slip: the vectors are zipped back in the wrong order.
bulk_config_step_reversed(acc, config, k, embed_fail) ==
  LET items == items_need_embedding(acc.data, config)
      sources == [j \in 1..Len(items) |-> acc.data[items[j]][config.source_field_name]]
      call == <<"embed_batch", config.embed_fn, config.vector_field_name, sources>>
      vector_embeddings == get_source_embeddings(config.embed_fn, sources)
  IN IF acc.error # "" THEN acc
     ELSE IF embed_fail = k
          THEN [acc EXCEPT !.error = "EmbeddingError", !.trace = Append(@, call)]
     ELSE [acc EXCEPT
             !.data = [i \in 1..Len(acc.data) |->
                        IF \E j \in 1..Len(items) : items[j] = i
                        THEN [acc.data[i] EXCEPT ![config.vector_field_name] =
                                vector_embeddings[Len(items) + 1
                                  - (CHOOSE j \in 1..Len(items) : items[j] = i)]]
                        ELSE acc.data[i]],
             !.trace = Append(@, call)]

\* One iteration of the auto-embedding loop of bulk_insert (lines 254-280): one
\* batch call for the config, its vectors zipped back onto the items that
\* needed them.
bulk_config_step(acc, config, k, embed_fail) ==
  LET items == items_need_embedding(acc.data, config)
      sources == [j \in 1..Len(items) |-> acc.data[items[j]][config.source_field_name]]
      call == <<"embed_batch", config.embed_fn, config.vector_field_name, sources>>
      vector_embeddings == get_source_embeddings(config.embed_fn, sources)
  IN IF acc.error # "" THEN acc
     ELSE IF config.embed_fn = "None" THEN acc
     ELSE IF embed_fail = k
          THEN [acc EXCEPT !.error = "EmbeddingError", !.trace = Append(@, call)]
     ELSE [acc EXCEPT
             !.data = [i \in 1..Len(acc.data) |->
                        IF \E j \in 1..Len(items) : items[j] = i
                        THEN [acc.data[i] EXCEPT ![config.vector_field_name] =
                                vector_embeddings[CHOOSE j \in 1..Len(items) : items[j] = i]]
                        ELSE acc.data[i]],
             !.trace = Append(@, call)]

RECURSIVE bulk_auto_embedding(_, _, _, _)
bulk_auto_embedding(acc, configs, k, embed_fail) ==
  IF k > Len(configs) THEN acc
  ELSE bulk_auto_embedding(bulk_config_step(acc, configs[k], k, embed_fail),
                           configs, k + 1, embed_fail)

\* db_session.add_all(data); flush(); refresh each.
bulk_persist(rows, data, db_ok) ==
  LET ids == [i \in 1..Len(data) |-> data[i].id]
      clash == \/ \E i \in 1..Len(data) : \E r \in rows : r.id = data[i].id
               \/ \E i, j \in 1..Len(data) : i # j /\ data[i].id = data[j].id
  IN IF ~db_ok \/ clash
     THEN [error |-> "DatabaseError", rows |-> rows,
           trace |-> <<<<"add_all", ids>>, <<"flush">>>>]
     ELSE [error |-> "", rows |-> rows \cup SeqToSet(data),
           trace |-> <<<<"add_all", ids>>, <<"flush">>>>
                     \o [i \in 1..Len(data) |-> <<"refresh", data[i].id>>]]

\* A plausible slip: the rows are written before the embeddings are computed.
Table_bulk_insert_persist_first(table, data, embed_fail, db_ok, rows) ==
  IF table.auto_embedding_configs = None_
  THEN [outcome |-> "AttributeError", data |-> data, rows |-> rows,
        trace |-> <<>>, ret |-> None_]
  ELSE
  LET p == bulk_persist(rows, data, db_ok)
      e == bulk_auto_embedding([data |-> data, trace |-> <<>>, error |-> ""],
                               table.auto_embedding_configs[1], 1, embed_fail)
  IN [outcome |-> IF p.error # "" THEN p.error ELSE IF e.error # "" THEN e.error ELSE "ok",
      data |-> e.data, rows |-> p.rows,
      trace |-> with_session(p) \o e.trace,
      ret |-> IF p.error # "" \/ e.error # "" THEN None_ ELSE Some(e.data)]

\* Table.bulk_insert (lines 252-287).
Table_bulk_insert(table, data, embed_fail, db_ok, rows) ==
  IF table.auto_embedding_configs = None_
  THEN [outcome |-> "AttributeError", data |-> data, rows |-> rows,
        trace |-> <<>>, ret |-> None_]
  ELSE
    LET e == bulk_auto_embedding([data |-> data, trace |-> <<>>, error |-> ""],
                                 table.auto_embedding_configs[1], 1, embed_fail)
        p == bulk_persist(rows, e.data, db_ok)
    IN IF e.error # ""
       THEN [outcome |-> e.error, data |-> e.data, rows |-> rows,
             trace |-> e.trace, ret |-> None_]
       ELSE [outcome |-> IF p.error # "" THEN p.error ELSE "ok",
             data |-> e.data, rows |-> p.rows,
             trace |-> e.trace \o with_session(p),
             ret |-> IF p.error # "" THEN None_ ELSE Some(e.data)]

\* ------------------------------------------------------------ Table.update
\* One iteration of the auto-embedding loop of update (lines 291-301) on the
\* values payload.
update_config_step(acc, config, k, embed_fail) ==
  LET field_name == config.vector_field_name
      call == <<"embed", config.embed_fn, field_name, acc.values[config.source_field_name]>>
  IN IF acc.error # "" THEN acc
     ELSE IF field_name \in DOMAIN acc.values THEN acc
     ELSE IF config.source_field_name \notin DOMAIN acc.values THEN acc
     ELSE IF embed_fail = k
          THEN [acc EXCEPT !.error = "EmbeddingError", !.trace = Append(@, call)]
     ELSE [acc EXCEPT
             !.values = @ @@ (field_name :>
               get_source_embedding(config.embed_fn, acc.values[config.source_field_name])),
             !.trace = Append(@, call)]

RECURSIVE update_auto_embedding(_, _, _, _)
update_auto_embedding(acc, configs, k, embed_fail) ==
  IF k > Len(configs) THEN acc
  ELSE update_auto_embedding(update_config_step(acc, configs[k], k, embed_fail),
                             configs, k + 1, embed_fail)

\* UPDATE ... SET values on one row.
ApplyValues(r, values) ==
  [c \in DOMAIN r |-> IF c \in DOMAIN values THEN values[c] ELSE r[c]]

\* The block of update's session (lines 304-308).  executed is what
\* db_session.execute returned: here the number of rows the statement matched.
update_statement(rows, columns, values, filters, db_ok) ==
  LET f == build_filter_clauses(filters, columns)
      hit == Matching(rows, f.clauses)
  IN IF f.error # ""
     THEN [error |-> f.error, rows |-> rows, trace |-> <<>>, executed |-> None_]
     ELSE IF ~db_ok
     THEN [error |-> "DatabaseError", rows |-> rows,
           trace |-> <<<<"execute", "update", f.clauses, values>>>>, executed |-> None_]
     ELSE [error |-> "",
           rows |-> {IF r \in hit THEN ApplyValues(r, values) ELSE r : r \in rows},
           trace |-> <<<<"execute", "update", f.clauses, values>>>>,
           executed |-> Some(Cardinality(hit))]

\* Table.update (lines 289-308).  The method has no return statement: ret is
\* None whatever execute returned.
Table_update(table, columns, values, filters, embed_fail, db_ok, rows) ==
  IF table.auto_embedding_configs = None_
  THEN [outcome |-> "AttributeError", values |-> values, rows |-> rows,
        trace |-> <<>>, executed |-> None_, ret |-> None_]
  ELSE
    LET e == update_auto_embedding([values |-> values, trace |-> <<>>, error |-> ""],
                                   table.auto_embedding_configs[1], 1, embed_fail)
        u == update_statement(rows, columns, e.values, filters, db_ok)
    IN IF e.error # ""
       THEN [outcome |-> e.error, values |-> e.values, rows |-> rows,
             trace |-> e.trace, executed |-> None_, ret |-> None_]
       ELSE [outcome |-> IF u.error # "" THEN u.error ELSE "ok",
             values |-> e.values, rows |-> u.rows,
             trace |-> e.trace \o with_session(u),
             executed |-> u.executed, ret |-> None_]

\* ------------------------------------------------------------ Table.delete
\* A plausible slip: the filter clauses are not applied to the statement.
delete_statement_unfiltered(rows, columns, filters, db_ok) ==
  LET f == build_filter_clauses(filters, columns)
  IN IF f.error # ""
     THEN [error |-> f.error, rows |-> rows, trace |-> <<>>, executed |-> None_]
     ELSE IF ~db_ok
     THEN [error |-> "DatabaseError", rows |-> rows,
           trace |-> <<<<"execute", "delete", <<>>>>>>, executed |-> None_]
     ELSE [error |-> "", rows |-> {}, trace |-> <<<<"execute", "delete", <<>>>>>>,
           executed |-> Some(Cardinality(rows))]

\* The block of delete's session (lines 318-322).  executed is what
\* db_session.execute returned: the number of rows the statement removed.
delete_statement(rows, columns, filters, db_ok) ==
  LET f == build_filter_clauses(filters, columns)
  IN IF f.error # ""
     THEN [error |-> f.error, rows |-> rows, trace |-> <<>>, executed |-> None_]
     ELSE IF ~db_ok
     THEN [error |-> "DatabaseError", rows |-> rows,
           trace |-> <<<<"execute", "delete", f.clauses>>>>, executed |-> None_]
     ELSE [error |-> "", rows |-> rows \ Matching(rows, f.clauses),
           trace |-> <<<<"execute", "delete", f.clauses>>>>,
           executed |-> Some(Cardinality(Matching(rows, f.clauses)))]

\* Table.delete (lines 310-322).
Table_delete(columns, filters, db_ok, rows) ==
  LET d == delete_statement(rows, columns, filters, db_ok)
  IN [outcome |-> IF d.error # "" THEN d.error ELSE "ok", rows |-> d.rows,
      trace |-> with_session(d), executed |-> d.executed, ret |-> None_]

\* ----------------------------------------------------------- Table.truncate
Table_truncate(db_ok, rows) ==
  LET t == IF ~db_ok
           THEN [error |-> "DatabaseError", rows |-> rows,
                 trace |-> <<<<"execute", "truncate">>>>]
           ELSE [error |-> "", rows |-> {}, trace |-> <<<<"execute", "truncate">>>>]
  IN [outcome |-> IF t.error # "" THEN t.error ELSE "ok", rows |-> t.rows,
      trace |-> with_session(t), ret |-> None_]

\* ------------------------------------------------------ the read operations
\* The rows in primary-key order, ascending or descending.
RECURSIVE SortById(_, _)
SortById(rows, desc) ==
  IF rows = {} THEN <<>>
  ELSE LET first == CHOOSE r \in rows : \A q \in rows :
                      IF desc THEN q.id <= r.id ELSE r.id <= q.id
       IN <<first>> \o SortById(rows \ {first}, desc)

\* Table.get (lines 228-230): the row of that primary key, or None.
Table_get(id, db_ok, rows) ==
  LET g == IF ~db_ok THEN [error |-> "DatabaseError", trace |-> <<<<"get", id>>>>]
           ELSE [error |-> "", trace |-> <<<<"get", id>>>>]
  IN [outcome |-> IF g.error # "" THEN g.error ELSE "ok",
      trace |-> with_session(g),
      ret |-> IF g.error = "" /\ (\E r \in rows : r.id = id)
              THEN Some(CHOOSE r \in rows : r.id = id) ELSE None_]

\* Table.columns (lines 330-343): the names the catalog lists for the table.
Table_columns(columns, db_ok) ==
  LET c == IF ~db_ok THEN [error |-> "DatabaseError", trace |-> <<<<"query", "columns">>>>]
           ELSE [error |-> "", trace |-> <<<<"query", "columns">>>>]
  IN [outcome |-> IF c.error # "" THEN c.error ELSE "ok",
      trace |-> with_session(c),
      ret |-> IF c.error = "" THEN Some([i \in 1..Len(columns) |-> columns[i].name])
              ELSE None_]

\* Table.rows (lines 345-349): SELECT COUNT(*).
Table_rows(db_ok, rows) ==
  LET c == IF ~db_ok THEN [error |-> "DatabaseError", trace |-> <<<<"query", "count">>>>]
           ELSE [error |-> "", trace |-> <<<<"query", "count">>>>]
  IN [outcome |-> IF c.error # "" THEN c.error ELSE "ok",
      trace |-> with_session(c),
      ret |-> IF c.error = "" THEN Some(Cardinality(rows)) ELSE None_]

\* The block of query's session (lines 359-396).  order_by is None, a column
\* name (<<name>>) or a one-entry mapping (<<name, direction>>); the model
\* orders by the primary key only, and an unordered result comes in primary-key
\* order.
query_block(rows, columns, filters, order_by, limit, offset, db_ok) ==
  LET f == IF filters # None_ THEN build_filter_clauses(filters, columns)
           ELSE [error |-> "", clauses |-> <<>>]
      desc == Len(order_by) = 2 /\ order_by[2] = "desc"
      sorted == SortById(Matching(rows, f.clauses), desc)
      result == IF offset # None_ THEN SubSeq(sorted, offset[1] + 1, Len(sorted)) ELSE sorted
      limited == IF limit # None_ /\ limit[1] < Len(result)
                 THEN SubSeq(result, 1, limit[1]) ELSE result
  IN IF f.error # "" THEN [error |-> f.error, trace |-> <<>>, result |-> None_]
     ELSE IF Len(order_by) >= 1 /\ ~HasColumn(columns, order_by[1])
     THEN [error |-> "KeyError", trace |-> <<>>, result |-> None_]
     ELSE IF Len(order_by) = 2 /\ order_by[2] \notin {"desc", "asc"}
     THEN [error |-> "ValueError", trace |-> <<>>, result |-> None_]
     ELSE IF ~db_ok
     THEN [error |-> "DatabaseError", trace |-> <<<<"exec", "select">>>>, result |-> None_]
     ELSE [error |-> "", trace |-> <<<<"exec", "select">>>>, result |-> Some(limited)]

\* Table.query (lines 351-396).
Table_query(rows, columns, filters, order_by, limit, offset, db_ok) ==
  LET q == query_block(rows, columns, filters, order_by, limit, offset, db_ok)
  IN [outcome |-> IF q.error # "" THEN q.error ELSE "ok",
      trace |-> with_session(q), ret |-> q.result]

\* INFORMATION_SCHEMA.TIFLASH_INDEXES: the column and the kind of an index.
IndexColumn(index) ==
  IF get_index_type(index) = "vector" THEN index.expressions[1][4] ELSE index.columns[1]

IndexKind(index) ==
  CASE get_index_type(index) = "vector" -> "Vector"
    [] get_index_type(index) = "fulltext" -> "FullText"
    [] OTHER -> "None"

\* Table._has_tiflash_index (lines 409-433), behind has_vector_index and
\* has_fts_index.
has_tiflash_index(indexes, column_name, index_kind, db_ok) ==
  LET h == IF ~db_ok THEN [error |-> "DatabaseError", trace |-> <<<<"query", "indexes">>>>]
           ELSE [error |-> "", trace |-> <<<<"query", "indexes">>>>]
  IN [outcome |-> IF h.error # "" THEN h.error ELSE "ok",
      trace |-> with_session(h),
      ret |-> IF h.error # "" THEN None_
              ELSE Some(\E i \in 1..Len(indexes) :
                          /\ IndexKind(indexes[i]) = index_kind
                          /\ IndexColumn(indexes[i]) = column_name)]

\* ------------------------------------------------------------------- state
VARIABLES
  tablename,      \* the physical table this behaviour follows
  sa_indexes,     \* schema id -> the indexes of that class's table definition
  db,             \* the physical table: exists, indexes, rows
  tbl,            \* the Table object of the caller: None_ or Some([schema, ...])
  last,           \* the call that finished last
  open_sessions   \* database sessions opened and not closed

vars == <<tablename, sa_indexes, db, tbl, last, open_sessions>>

\* The events of a call, in order, are tuples whose head names the event.
Events(trace, ev) == Len(SelectSeq(trace, LAMBDA e : e[1] = ev))
SessionDelta(trace) == Events(trace, "session_open") - Events(trace, "session_close")

NoCall == [op |-> "none", outcome |-> "ok", trace |-> <<>>]
FreshDb == [exists |-> FALSE, indexes |-> <<>>, rows |-> {}]
DeclaredIndexes == [sid \in SchemaIds |-> Schemas[sid].table_args]

\* ------------------------------------------------------------ construction
\* Nothing constructed yet, the physical table not created yet.
InitFresh ==
  /\ tablename \in TableNames
  /\ sa_indexes = DeclaredIndexes
  /\ db = FreshDb
  /\ tbl = None_
  /\ last = NoCall
  /\ open_sessions = 0

\* The (vector_column, text_column) arguments tried.
ColumnNameArgs ==
  {<<None_, None_>>, <<Some("v"), None_>>, <<Some("s"), None_>>, <<Some("zz"), None_>>,
   <<None_, Some("s")>>, <<None_, Some("t")>>, <<None_, Some("v")>>, <<None_, Some("zz")>>,
   <<Some("w"), Some("s")>>}

\* Table(client=..., schema=..., vector_column=..., text_column=..., exist_ok=...)
Construct ==
  \E sid \in SchemaIds, cols \in ColumnNameArgs, exist_ok \in BOOLEAN, db_ok \in BOOLEAN :
    /\ Schemas[sid].tablename = tablename
    /\ LET r == Table_init(Schemas[sid], cols[1], cols[2], exist_ok, db_ok,
                           sa_indexes[sid], db)
       IN /\ sa_indexes' = [sa_indexes EXCEPT ![sid] = r.indexes]
          /\ db' = r.db
          /\ tbl' = IF r.table = None_ THEN tbl
                    ELSE Some([schema |-> sid] @@ r.table[1])
          /\ last' = [op |-> "init", outcome |-> r.outcome, trace |-> r.trace,
                      args |-> [schema |-> sid, vector_column |-> cols[1],
                                text_column |-> cols[2], exist_ok |-> exist_ok],
                      existed |-> db.exists]
          /\ open_sessions' = open_sessions + SessionDelta(r.trace)
    /\ UNCHANGED tablename

SpecConstruct == InitFresh /\ [][Construct]_vars

\* ---------------------------------------------------------- data operations
\* The state right after a Table has been constructed over a fresh database,
\* for any schema whose construction succeeds.
Init ==
  /\ tablename \in TableNames
  /\ \E sid \in SchemaIds :
       /\ Schemas[sid].tablename = tablename
       /\ LET r == Table_init(Schemas[sid], None_, None_, TRUE, TRUE,
                              DeclaredIndexes[sid], FreshDb)
          IN /\ r.table # None_
             /\ sa_indexes = [DeclaredIndexes EXCEPT ![sid] = r.indexes]
             /\ db = r.db
             /\ tbl = Some([schema |-> sid] @@ r.table[1])
  /\ last = NoCall
  /\ open_sessions = 0

Columns == Schemas[tbl[1].schema].columns

\* The records handed to insert and bulk_insert, per table.
DocRecords == [id : 1..MaxId, s : {1, 2}, v : {NoneVal, 50}]
MultiRecords == [id : 1..MaxId, s : {1, 2}, t : {NoneVal}, v : {NoneVal, 50}, w : {NoneVal}]
BareRecords == [id : 1..MaxId]

\* Lists of at most MaxBatch records, their primary keys increasing.
Batches(records) ==
  {b \in UNION {[1..n -> records] : n \in 0..MaxBatch} :
     \A i \in 1..(Len(b) - 1) : b[i].id < b[i + 1].id}
DocBatches == Batches(DocRecords)
MultiBatches == Batches(MultiRecords)
BareBatches == Batches(BareRecords)

RecordInputs ==
  CASE tablename = "docs" -> DocRecords
    [] tablename = "multi" -> MultiRecords
    [] OTHER -> BareRecords
BatchInputs ==
  CASE tablename = "docs" -> DocBatches
    [] tablename = "multi" -> MultiBatches
    [] OTHER -> BareBatches

NumConfigs ==
  IF tbl[1].auto_embedding_configs = None_ THEN 0
  ELSE Len(tbl[1].auto_embedding_configs[1])

ValuesInputs ==
  IF tablename = "bare" THEN {}
  ELSE {("s" :> 2), ("s" :> 2) @@ ("v" :> 50)}
FiltersInputs ==
  {None_, Some([column |-> "id", value |-> 1]), Some([column |-> "s", value |-> 1]),
   Some([column |-> "zz", value |-> 1])}

Finish(call, rows) ==
  /\ last' = call
  /\ db' = [db EXCEPT !.rows = rows]
  /\ open_sessions' = open_sessions + SessionDelta(call.trace)
  /\ UNCHANGED <<tablename, sa_indexes, tbl>>

Insert ==
  \E data \in RecordInputs, embed_fail \in 0..NumConfigs, db_ok \in BOOLEAN :
    LET r == Table_insert(tbl[1], data, embed_fail, db_ok, db.rows)
    IN Finish([op |-> "insert", outcome |-> r.outcome, trace |-> r.trace,
               args |-> data, data |-> r.data, ret |-> r.ret], r.rows)

BulkInsert ==
  \E data \in BatchInputs, embed_fail \in 0..NumConfigs, db_ok \in BOOLEAN :
    LET r == Table_bulk_insert(tbl[1], data, embed_fail, db_ok, db.rows)
    IN Finish([op |-> "bulk_insert", outcome |-> r.outcome, trace |-> r.trace,
               args |-> data, data |-> r.data, ret |-> r.ret], r.rows)

Update ==
  \E values \in ValuesInputs, filters \in FiltersInputs,
     embed_fail \in 0..NumConfigs, db_ok \in BOOLEAN :
    LET r == Table_update(tbl[1], Columns, values, filters, embed_fail, db_ok, db.rows)
    IN Finish([op |-> "update", outcome |-> r.outcome, trace |-> r.trace,
               args |-> [values |-> values, filters |-> filters],
               values |-> r.values, executed |-> r.executed, ret |-> r.ret], r.rows)

Delete ==
  \E filters \in FiltersInputs, db_ok \in BOOLEAN :
    LET r == Table_delete(Columns, filters, db_ok, db.rows)
    IN Finish([op |-> "delete", outcome |-> r.outcome, trace |-> r.trace,
               args |-> [filters |-> filters], executed |-> r.executed,
               ret |-> r.ret], r.rows)

Truncate ==
  \E db_ok \in BOOLEAN :
    LET r == Table_truncate(db_ok, db.rows)
    IN Finish([op |-> "truncate", outcome |-> r.outcome, trace |-> r.trace,
               ret |-> r.ret], r.rows)

Get ==
  \E id \in 1..MaxId, db_ok \in BOOLEAN :
    LET r == Table_get(id, db_ok, db.rows)
    IN Finish([op |-> "get", outcome |-> r.outcome, trace |-> r.trace,
               args |-> id, ret |-> r.ret], db.rows)

ColumnsCall ==
  \E db_ok \in BOOLEAN :
    LET r == Table_columns(Columns, db_ok)
    IN Finish([op |-> "columns", outcome |-> r.outcome, trace |-> r.trace,
               ret |-> r.ret], db.rows)

RowsCall ==
  \E db_ok \in BOOLEAN :
    LET r == Table_rows(db_ok, db.rows)
    IN Finish([op |-> "rows", outcome |-> r.outcome, trace |-> r.trace,
               ret |-> r.ret], db.rows)

\* The (filters, order_by, limit, offset) arguments tried.
QueryInputs ==
  {<<None_, <<>>, None_, None_>>,
   <<Some([column |-> "id", value |-> 1]), <<"id">>, None_, None_>>,
   <<Some([column |-> "zz", value |-> 1]), <<>>, None_, None_>>,
   <<None_, <<"zz">>, None_, None_>>,
   <<None_, <<"zz", "asc">>, None_, None_>>,
   <<None_, <<"id", "up">>, None_, None_>>,
   <<None_, <<"id", "desc">>, Some(1), None_>>,
   <<None_, <<"id", "asc">>, None_, Some(1)>>}

Query ==
  \E q \in QueryInputs, db_ok \in BOOLEAN :
    LET r == Table_query(db.rows, Columns, q[1], q[2], q[3], q[4], db_ok)
    IN Finish([op |-> "query", outcome |-> r.outcome, trace |-> r.trace,
               args |-> q, ret |-> r.ret], db.rows)

HasVectorIndex ==
  \E column_name \in {"v", "s"}, db_ok \in BOOLEAN :
    LET r == has_tiflash_index(db.indexes, column_name, "Vector", db_ok)
    IN Finish([op |-> "has_vector_index", outcome |-> r.outcome, trace |-> r.trace,
               args |-> column_name, ret |-> r.ret], db.rows)

HasFtsIndex ==
  \E column_name \in {"v", "s"}, db_ok \in BOOLEAN :
    LET r == has_tiflash_index(db.indexes, column_name, "FullText", db_ok)
    IN Finish([op |-> "has_fts_index", outcome |-> r.outcome, trace |-> r.trace,
               args |-> column_name, ret |-> r.ret], db.rows)

Next ==
  \/ Insert
  \/ BulkInsert
  \/ Update
  \/ Delete
  \/ Truncate
  \/ Get
  \/ ColumnsCall
  \/ RowsCall
  \/ Query
  \/ HasVectorIndex
  \/ HasFtsIndex

Spec == Init /\ [][Next]_vars

\* ================================================================ claims
\* The vector fields of a schema that ask for an index: declared with
\* per-field metadata and without the skip-index flag.
IndexedVectorFields(schema) ==
  IF ~HasPydanticFields(schema) THEN <<>>
  ELSE SelectSeq(FieldsOfType(schema, "vector"),
                 LAMBDA f : ~AttrGet(f.attrs, "skip_index", FALSE))

\* The index collection holds a vector index for the field and its metric.
HasVectorIndexFor(indexes, field) ==
  \E i \in 1..Len(indexes) :
    /\ get_index_type(indexes[i]) = "vector"
    /\ indexes[i].expressions[1] =
         format_distance_expression(field.name,
                                    AttrGet(field.attrs, "distance_metric", "COSINE"))

ConstructedOk == last.op = "init" /\ last.outcome = "ok"

\* C1: after every successful construction, first or repeated, the physical
\* table carries a vector index for each vector field without the skip-index
\* flag, on the field's declared metric -- also when the table existed before
\* the construction and exist_ok was true.
C1_VectorIndexOnTable ==
  ConstructedOk =>
    LET fields == IndexedVectorFields(Schemas[last.args.schema])
    IN \A k \in 1..Len(fields) : HasVectorIndexFor(db.indexes, fields[k])

\* What the code does guarantee for C1's schemas: the index is part of the
\* schema's table definition after every successful construction, and of the
\* physical table whenever that construction created the table.
C1_VectorIndexOnDefinition ==
  ConstructedOk =>
    LET fields == IndexedVectorFields(Schemas[last.args.schema])
    IN \A k \in 1..Len(fields) :
         /\ HasVectorIndexFor(sa_indexes[last.args.schema], fields[k])
         /\ ~last.existed => HasVectorIndexFor(db.indexes, fields[k])

\* No two vector indexes on one (column, metric) and no two fulltext indexes on
\* one column.
NoDuplicateIndex(indexes) ==
  \A i, j \in 1..Len(indexes) :
    i # j =>
      /\ ~(/\ get_index_type(indexes[i]) = "vector"
           /\ get_index_type(indexes[j]) = "vector"
           /\ indexes[i].expressions[1] = indexes[j].expressions[1])
      /\ ~(/\ get_index_type(indexes[i]) = "fulltext"
           /\ get_index_type(indexes[j]) = "fulltext"
           /\ indexes[i].columns[1] = indexes[j].columns[1])

\* C2: whatever constructions have run, every schema's table definition and
\* the physical table carry at most one vector index per (column, metric) and
\* at most one fulltext index per column, whatever the parsers are.
C2_NoDuplicateIndexes ==
  /\ \A sid \in SchemaIds : NoDuplicateIndex(sa_indexes[sid])
  /\ NoDuplicateIndex(db.indexes)

\* C2's case: a schema constructed again over the table its first construction
\* created, its fulltext field asking for another parser than the index the
\* column already has, and its vector field for a second metric.
C2_Witness ==
  /\ ConstructedOk
  /\ last.existed
  /\ last.args.schema = "DocArgs"
  /\ db.indexes = sa_indexes["DocArgs"]
  /\ Len(sa_indexes["DocArgs"]) = 4
  /\ \E i \in 1..Len(db.indexes) :
       /\ get_index_type(db.indexes[i]) = "fulltext"
       /\ db.indexes[i].fts_parser = "STANDARD"

\* C6: a construction whose schema is of no recognized metaclass ends with the
\* schema type error and changes nothing: no event, no index added to any
\* table definition, no table created, no Table object.
C6_SchemaTypeErrorFirst ==
  [][(last'.op = "init" /\ ~RecognizedSchemaType(Schemas[last'.args.schema]))
       => /\ last'.outcome = "TypeError"
          /\ last'.trace = <<>>
          /\ db' = db
          /\ sa_indexes' = sa_indexes
          /\ tbl' = tbl]_vars

C6_Witness ==
  /\ last.op = "init"
  /\ last.args.schema = "NotASchema"
  /\ last.outcome = "TypeError"
  /\ ~db.exists

\* The column of that name, when it exists and has a type the test accepts.
IsVectorColumn(columns, name) ==
  HasColumn(columns, name) /\ isinstance(ColumnOf(columns, name).type, VectorType)
IsTextColumn(columns, name) ==
  /\ HasColumn(columns, name)
  /\ \/ isinstance(ColumnOf(columns, name).type, String)
     \/ isinstance(ColumnOf(columns, name).type, AutoString)

\* C8: with the database answering, a construction given a default vector
\* (text) column name succeeds exactly when that name is a vector (string-like)
\* column of the table, and then that column is the default; otherwise it
\* fails with the column error.  With no name given the default is the single
\* vector (text) column, or unset when there are none or several.
C8_DefaultColumns ==
  (/\ last.op = "init"
   /\ RecognizedSchemaType(Schemas[last.args.schema])
   /\ last.outcome # "DatabaseError")
  =>
    LET columns == Schemas[last.args.schema].columns
        vc == last.args.vector_column
        tc == last.args.text_column
        vector_ok == vc = None_ \/ IsVectorColumn(columns, vc[1])
        text_ok == tc = None_ \/ IsTextColumn(columns, tc[1])
        vector_columns == filter_vector_columns(columns)
        text_columns == filter_text_columns(columns)
    IN /\ last.outcome = "ok" <=> (vector_ok /\ text_ok)
       /\ last.outcome # "ok" => last.outcome = "ValueError"
       /\ last.outcome = "ok" =>
            /\ tbl[1].vector_column =
                 IF vc # None_ THEN Some(ColumnOf(columns, vc[1]))
                 ELSE IF Len(vector_columns) = 1 THEN Some(vector_columns[1])
                 ELSE None_
            /\ tbl[1].text_column =
                 IF tc # None_ THEN Some(ColumnOf(columns, tc[1]))
                 ELSE IF Len(text_columns) = 1 THEN Some(text_columns[1])
                 ELSE None_

\* ---------------------------------------------------- claims on the data path
ConfigsDefined == tbl[1].auto_embedding_configs # None_
Configs == tbl[1].auto_embedding_configs[1]

\* The calls of kind ev ("embed", "embed_batch") made for a vector field.
EmbedCalls(trace, ev, field_name) ==
  SelectSeq(trace, LAMBDA e : e[1] = ev /\ e[3] = field_name)

\* C3: insert under an auto-embedding config (V from S by E).  With V unset and
\* S set, a successful insert has persisted the record with V = E(S).  With V
\* set, E is not called for the config, the record keeps its V, and that V is
\* what a successful insert has persisted.
C3_InsertAutoEmbedding ==
  (last.op = "insert" /\ ConfigsDefined) =>
    \A k \in 1..Len(Configs) :
      LET V == Configs[k].vector_field_name
          S == Configs[k].source_field_name
          E == Configs[k].embed_fn
      IN /\ (/\ last.args[V] = NoneVal
             /\ S \in DOMAIN last.args
             /\ last.args[S] # NoneVal
             /\ last.outcome = "ok")
            => /\ last.data[V] = get_source_embedding(E, last.args[S])
               /\ \E r \in db.rows :
                    /\ r.id = last.args.id
                    /\ r[V] = get_source_embedding(E, last.args[S])
                    /\ r[S] = last.args[S]
         /\ last.args[V] # NoneVal
            => /\ EmbedCalls(last.trace, "embed", V) = <<>>
               /\ last.data[V] = last.args[V]
               /\ last.outcome = "ok"
                  => \E r \in db.rows : r.id = last.args.id /\ r[V] = last.args[V]

\* C3's case: a record without its vector, inserted and persisted with the
\* embedding of its source.
C3_Witness ==
  /\ last.op = "insert"
  /\ last.outcome = "ok"
  /\ tbl[1].schema = "Doc"
  /\ last.args.v = NoneVal
  /\ last.args.s = 2
  /\ \E r \in db.rows : r.id = last.args.id /\ r.v = 12

\* The positions of a batch whose record lacks the config's vector and has its
\* source field.
NeedEmbedding(batch, config) ==
  SelectSeq([i \in 1..Len(batch) |-> i],
            LAMBDA i : /\ batch[i][config.vector_field_name] = NoneVal
                       /\ config.source_field_name \in DOMAIN batch[i])

\* C4: in a bulk_insert whose embedding calls all succeeded, each config's
\* batch function was called exactly once, with the sources of the records
\* that needed the embedding, in list order; the i-th of them carries the
\* embedding of its own source, every other record keeps its vector; and no
\* per-record embedding call was made.  Whatever the outcome, no config's batch
\* function is called twice.
C4_BulkInsertBatchEmbedding ==
  (last.op = "bulk_insert" /\ ConfigsDefined) =>
    \A k \in 1..Len(Configs) :
      LET V == Configs[k].vector_field_name
          S == Configs[k].source_field_name
          E == Configs[k].embed_fn
          need == NeedEmbedding(last.args, Configs[k])
          sources == [j \in 1..Len(need) |-> last.args[need[j]][S]]
          calls == EmbedCalls(last.trace, "embed_batch", V)
      IN /\ Len(calls) <= 1
         /\ Events(last.trace, "embed") = 0
         /\ last.outcome \in {"ok", "DatabaseError"}
            => /\ calls = <<<<"embed_batch", E, V, sources>>>>
               /\ \A i \in 1..Len(last.args) :
                    last.data[i][V] =
                      IF \E j \in 1..Len(need) : need[j] = i
                      THEN get_source_embedding(E, last.args[i][S])
                      ELSE last.args[i][V]
               /\ last.outcome = "ok" => SeqToSet(last.data) \subseteq db.rows

\* C4's case: two records with different sources, in descending source order,
\* both without a vector, and a third kind of record is not needed: one batch
\* call, both persisted.
C4_Witness ==
  /\ last.op = "bulk_insert"
  /\ last.outcome = "ok"
  /\ tbl[1].schema = "Multi"
  /\ Len(last.args) = 2
  /\ last.args[1].s = 2 /\ last.args[1].v = NoneVal
  /\ last.args[2].s = 1 /\ last.args[2].v = NoneVal
  /\ last.data[1].v = 12 /\ last.data[2].v = 11
  /\ last.data[1].w = 22 /\ last.data[2].w = 21
  /\ Events(last.trace, "embed_batch") = 2

\* C5: a bulk_insert that ends with the error of an embedding call has opened
\* no session, added no record, returned nothing and left the table's rows as
\* they were.
C5_EmbeddingFailureAborts ==
  [][(last'.op = "bulk_insert" /\ last'.outcome = "EmbeddingError")
       => /\ db' = db
          /\ Events(last'.trace, "session_open") = 0
          /\ Events(last'.trace, "add_all") = 0
          /\ last'.ret = None_]_vars

\* C5's case: the second config's batch call fails after the first succeeded,
\* on a non-empty batch.
C5_Witness ==
  /\ last.op = "bulk_insert"
  /\ last.outcome = "EmbeddingError"
  /\ Len(last.args) = 2
  /\ Events(last.trace, "embed_batch") = 2

PublicOps ==
  {"get", "insert", "bulk_insert", "update", "delete", "truncate", "columns", "rows",
   "query", "has_vector_index", "has_fts_index"}

\* Every database event of the call lies inside a session that the call closed.
SessionScoped(trace) ==
  /\ Events(trace, "session_open") = Events(trace, "session_close")
  /\ Events(trace, "session_open") <= 1
  /\ \A i \in 1..Len(trace) :
       trace[i][1] \notin {"embed", "embed_batch", "session_open", "session_close"}
       => /\ \E a \in 1..(i - 1) : trace[a][1] = "session_open"
          /\ \E b \in (i + 1)..Len(trace) : trace[b][1] = "session_close"

\* C7: after any sequence of calls no session is open; every database event of
\* a public operation lies inside a session the operation closed, on success,
\* on a validation failure and on a database error alike; and the operation
\* did open one unless it failed before its database step.
C7_SessionsReleased ==
  /\ open_sessions = 0
  /\ last.op \in PublicOps
     => /\ SessionScoped(last.trace)
        /\ last.outcome \notin {"EmbeddingError", "AttributeError"}
           => Events(last.trace, "session_open") = 1

\* C7's case: a query that fails its order_by validation inside the session.
C7_Witness ==
  /\ last.op = "query"
  /\ last.outcome = "KeyError"
  /\ last.trace = <<<<"session_open">>, <<"session_close">>>>

\* The position of the first event of that kind, 0 when there is none.
FirstEvent(trace, ev) ==
  IF \E i \in 1..Len(trace) : trace[i][1] = ev
  THEN CHOOSE i \in 1..Len(trace) :
         trace[i][1] = ev /\ \A j \in 1..(i - 1) : trace[j][1] # ev
  ELSE 0

\* The embedding half of C9: a payload with the source and without the vector
\* gets the embedding of the source before the statement is issued; a payload
\* with the vector keeps it and causes no embedding call.
C9_PayloadEmbedding ==
  (last.op = "update" /\ ConfigsDefined) =>
    \A k \in 1..Len(Configs) :
      LET V == Configs[k].vector_field_name
          S == Configs[k].source_field_name
          E == Configs[k].embed_fn
          given == last.args.values
      IN /\ (S \in DOMAIN given /\ V \notin DOMAIN given /\ last.outcome # "EmbeddingError")
            => /\ V \in DOMAIN last.values
               /\ last.values[V] = get_source_embedding(E, given[S])
               /\ Len(EmbedCalls(last.trace, "embed", V)) = 1
               /\ FirstEvent(last.trace, "execute") # 0
                  => FirstEvent(last.trace, "embed") < FirstEvent(last.trace, "execute")
         /\ V \in DOMAIN given
            => /\ EmbedCalls(last.trace, "embed", V) = <<>>
               /\ last.values[V] = given[V]

\* C9: update embeds into the payload as above, and a successful update
\* returns what executing the statement returned.
C9_UpdateEmbedsAndReturns ==
  /\ C9_PayloadEmbedding
  /\ (last.op = "update" /\ last.outcome = "ok") => last.ret = last.executed

\* C10: a successful delete without filters leaves no row; a successful delete
\* with a filter leaves exactly the rows that do not match it, as they were.
C10_DeleteFrame ==
  [][(last'.op = "delete" /\ last'.outcome = "ok")
       => LET f == last'.args.filters
          IN IF f = None_ THEN db'.rows = {}
             ELSE db'.rows = {r \in db.rows : r[f[1].column] # f[1].value}]_vars

\* C10's case: a filtered delete that removed a row and left another.
C10_Witness ==
  /\ last.op = "delete"
  /\ last.outcome = "ok"
  /\ last.args.filters = Some([column |-> "id", value |-> 1])
  /\ last.executed = Some(1)
  /\ db.rows # {}

\* ------------------------------------------- claims on the config mapping
WriteOps == {"insert", "bulk_insert", "update"}

\* The schema's field of that name is a vector field declaring both an
\* embedding function and a source field.
DeclaresAutoEmbedding(schema, field_name) ==
  /\ HasPydanticFields(schema)
  /\ \E i \in 1..Len(schema.pydantic_fields) :
       LET f == schema.pydantic_fields[i]
       IN /\ f.name = field_name
          /\ AttrGet(f.attrs, "field_type", "None") = "vector"
          /\ AttrGet(f.attrs, "embed_fn", "None") # "None"
          /\ AttrGet(f.attrs, "source_field", "None") # "None"

\* C11: on a table whose construction succeeded, whichever of the three
\* recognized metaclasses its schema has, every insert, bulk_insert and update
\* finds the auto-embedding config mapping defined (possibly empty) and does not
\* fail on a missing configuration, and the mapping has an entry for a field
\* only if the field is a vector field declaring both an embedding function and
\* a source field.
C11_ConfigMappingDefined ==
  (last.op \in WriteOps) =>
    /\ ConfigsDefined
    /\ last.outcome # "AttributeError"
    /\ \A k \in 1..Len(Configs) :
         DeclaresAutoEmbedding(Schemas[tbl[1].schema], Configs[k].vector_field_name)

\* What holds of the mapping: it is defined exactly for the schemas exposing
\* per-field metadata, its entries are then exactly the vector fields declaring
\* both an embedding function and a source field, and a write call fails on a
\* missing configuration exactly when the mapping is undefined.
C11_ConfigMappingOfFieldMetadata ==
  LET schema == Schemas[tbl[1].schema]
  IN /\ ConfigsDefined <=> HasPydanticFields(schema)
     /\ ConfigsDefined =>
          /\ \A k \in 1..Len(Configs) :
               DeclaresAutoEmbedding(schema, Configs[k].vector_field_name)
          /\ \A i \in 1..Len(schema.pydantic_fields) :
               DeclaresAutoEmbedding(schema, schema.pydantic_fields[i].name)
                 => \E k \in 1..Len(Configs) :
                      Configs[k].vector_field_name = schema.pydantic_fields[i].name
     /\ (last.op \in WriteOps) =>
          (last.outcome = "AttributeError" <=> ~ConfigsDefined)

\* A write call on a table of an ORM declarative schema has failed on the
\* missing mapping, before any session was opened and with the rows untouched.
C11_MissingMappingReached ==
  /\ last.op = "insert"
  /\ Schemas[tbl[1].schema].metaclass = "DeclarativeMeta"
  /\ last.outcome = "AttributeError"
  /\ last.trace = <<>>
====
